---------------------------- MODULE Spec2Model ----------------------------
(***************************************************************************)
(* A model of betaduck: the command dispatcher (betaduck_main.py), the     *)
(* align workflow (prom_beta_align_wrapper.py), the config generator       *)
(* (prom_beta_tar_gen_config.py), the tidy workflow                        *)
(* (prom_beta_tar_wrapper.py driving prom_beta_tar_runner.py) and the      *)
(* MinION gzip script (minion_beta_gzip_no_basecall.py).                   *)
(*                                                                         *)
(* Five specifications share the module: SpecMain (dispatch), SpecAlign    *)
(* (index, alignment pool, merge, QC pool, report), SpecConfig (config     *)
(* table, mini summaries, YAML), SpecTidy (the pool of runner processes)   *)
(* and SpecMinion (list, rename, compress pool).  A specification leaves   *)
(* the variables of the others at their idle values.                       *)
(***************************************************************************)
EXTENDS Integers, Sequences, FiniteSets, TLC

VARIABLES
    \* ---- betaduck_main.py
    args,          \* the argparse namespace: command, threads, flags, cs
    m_pc,          \* position in betaduck_main.main / run_function
    command_to_run,\* the module bound by run_function's import chain
    main_calls,    \* the modules whose main(args) was called, in order
    help_printed,  \* parser.print_help() was called
    \* ---- prom_beta_align_wrapper.py
    a_args,        \* [w_lambda, threads] of the align subcommand
    fastqs,        \* number of *.fastq.gz files in --fastq_dir
    fs,            \* the paths (files and directories) that exist
    fs0,           \* fs on entry to main
    a_pc,          \* position in main (get_index's steps included)
    jobs,          \* alignment pool: job -> position in generate_alignment
    submitted,     \* alignment pool: job -> number of times it was submitted
    qjobs,         \* QC pool: job -> position in generate_pickle
    touched,       \* job -> paths it issued a create/write on while running
    bams,          \* the per-file and pooled BAM files written
    pickles,       \* the per-file and pooled pickles written
    qc_runs,       \* BAM file -> number of bam_alignment_qc.py runs on it
    report_inputs, \* the pickles handed to bam_multi_qc.py
    index_calls,   \* number of generate_index invocations
    combined,      \* combine_lambda_genome has run
    invoked,       \* the external tools invoked so far
    failed,        \* the tools that returned a non-zero exit code
    logged,        \* the tools whose non-zero exit code was logged
    \* ---- prom_beta_tar_wrapper.py / prom_beta_tar_runner.py
    t_args,        \* [keep, overwrite, dry_run, threads] of tidy
    nsets,         \* number of file sets the config describes
    orient,        \* which keys the YAML mapping of the config has outermost
    t_fs,          \* the data files that exist: <<kind, path role, set>>
    t_fs0,         \* t_fs on entry
    md5,           \* checksum file -> the file sets whose lines were appended
    t_pc,          \* position in the wrapper's main
    t_jobs,        \* tidy pool: job -> position in run_process / runner main
    t_cmd,         \* job -> the option flags of its runner command line
    t_paths,       \* job -> the path options of its runner command line
    t_ops,         \* job -> the filesystem operations it performed, in order
    t_log,         \* the messages zip_and_move_file logged: <<message, kind, set>>
    \* ---- prom_beta_tar_gen_config.py
    c_args,        \* [active, sanitiser, run_dir_fields, bulk_exists] of config
    c_summary,     \* the file numbers of the sequencing summary's rows, in order
    c_pc,          \* position in main
    config_df,     \* the config table get_all_files returned: one row per file
    summary_df,    \* the zfill_num column of the tidied summary table
    mini_i,        \* output_mini_dfs: position of its loop
    mini_written,  \* the zfill_num values a mini summary file was written for
    c_yaml,        \* the mapping output_yaml dumped to --output-yaml-file
    c_tools,       \* the external commands run, in order
    \* ---- minion_beta_gzip_no_basecall.py
    g_args,        \* [dry_run, overwrite, rename, threads] of the script
    g_dirname,     \* the fields of the fast5 directory's path
    g_files,       \* the names in the fast5 directory
    g_open,        \* the paths some process holds open
    g_files0,      \* g_files on entry
    g_pc,          \* position in main
    g_inputs,      \* the list get_fast5_files returned
    fast5_files,   \* main's list: g_inputs, or what rename_fast5_files returned
    g_moves,       \* the shutil.move calls of rename_fast5_files: <<from, to>>
    g_jobs         \* compress pool: job -> position in compress_fast5_file

mainVars  == <<args, m_pc, command_to_run, main_calls, help_printed>>
alignVars == <<a_args, fastqs, fs, fs0, a_pc, jobs, submitted, qjobs, touched,
               bams, pickles, qc_runs, report_inputs, index_calls, combined,
               invoked, failed, logged>>
tidyVars  == <<t_args, nsets, orient, t_fs, t_fs0, md5, t_pc, t_jobs, t_cmd,
               t_paths, t_ops, t_log>>
configVars == <<c_args, c_summary, c_pc, config_df, summary_df, mini_i,
                mini_written, c_yaml, c_tools>>
minionVars == <<g_args, g_dirname, g_files, g_open, g_files0, g_pc, g_inputs,
                fast5_files, g_moves, g_jobs>>
vars      == <<mainVars, alignVars, tidyVars, configVars, minionVars>>

\* ------------------------------------------------------------------ bounds
MaxThreads  == 3    \* --threads ranges over 1..MaxThreads
MaxFastq    == 3    \* at most this many FASTQ files in --fastq_dir
MaxFailures == 1    \* at most this many external commands fail in one run
MaxSets     == 2    \* at most this many file sets in the tidy config
MaxFileNum  == 3    \* the <N> of a data file's name ranges over 0..MaxFileNum
MaxReads    == 3    \* at most this many reads in the sequencing summary
MaxFast5    == 2    \* the MinION fast5 directory holds files numbered 1..MaxFast5

Range(s) == {s[i] : i \in 1..Len(s)}

(***************************************************************************)
(*                          betaduck_main.py                               *)
(***************************************************************************)
Commands == {"config", "tidy", "plot", "align"}

\* The options each subparser defines (store_true flags; --threads; --cs).
FlagsOf(c) ==
    CASE c = "config" -> {"sanitiser", "active"}
      [] c = "tidy"   -> {"keep", "dry_run", "overwrite"}
      [] c = "align"  -> {"w_lambda", "md"}
      [] OTHER        -> {}

ThreadsOf(c) == IF c \in {"tidy", "plot", "align"} THEN 1..MaxThreads ELSE {1}

CsOf(c) == IF c = "align" THEN {"long", "short", "none"} ELSE {"long"}

\* What parser.parse_args() can return; command "none" is `betaduck` alone.
ArgSpace ==
    {[command |-> "none", threads |-> 1, flags |-> {}, cs |-> "long"]} \cup
    UNION {[command : {c}, threads : ThreadsOf(c),
            flags : SUBSET FlagsOf(c), cs : CsOf(c)] : c \in Commands}

\* The module that implements each subcommand (the help strings and the
\* imports of run_function).
ModuleOf(c) ==
    CASE c = "config" -> "prom_beta_tar_gen_config"
      [] c = "tidy"   -> "prom_beta_tar_wrapper"
      [] c = "plot"   -> "prom_beta_plotter_wrapper"
      [] c = "align"  -> "prom_beta_align_wrapper"
      [] OTHER        -> "unbound"

\* run_function, lines 18-27: an if/elif/elif chain, then a SEPARATE
\* if/else.  The result is the module left bound and whether line 27 returned.
run_function(c) ==
    LET chain == IF c = "config" THEN ModuleOf("config")
                 ELSE IF c = "tidy" THEN ModuleOf("tidy")
                 ELSE IF c = "plot" THEN ModuleOf("plot")
                 ELSE "unbound"
    IN  IF c = "align"
        THEN [bound |-> ModuleOf("align"), returned |-> FALSE]
        ELSE [bound |-> chain, returned |-> TRUE]

MainInit ==
    /\ args \in ArgSpace
    /\ m_pc = "parse"
    /\ command_to_run = "unbound"
    /\ main_calls = <<>>
    /\ help_printed = FALSE

MainIdle ==
    /\ args = [command |-> "none", threads |-> 1, flags |-> {}, cs |-> "long"]
    /\ m_pc = "idle"
    /\ command_to_run = "unbound"
    /\ main_calls = <<>>
    /\ help_printed = FALSE

\* main, lines 107-113: print the help when only `betaduck` was typed,
\* otherwise call args.func, which every subparser sets to run_function.
betaduck_main ==
    /\ m_pc = "parse"
    /\ IF args.command = "none"
       THEN /\ help_printed' = TRUE
            /\ m_pc' = "done"
       ELSE /\ help_printed' = help_printed
            /\ m_pc' = "run_function"
    /\ UNCHANGED <<alignVars, tidyVars, configVars, minionVars>>
    /\ UNCHANGED <<args, command_to_run, main_calls>>

\* run_function, lines 18-27.
run_function_select ==
    /\ m_pc = "run_function"
    /\ LET r == run_function(args.command)
       IN  /\ command_to_run' = r.bound
           /\ m_pc' = IF r.returned THEN "done" ELSE "call"
    /\ UNCHANGED <<alignVars, tidyVars, configVars, minionVars>>
    /\ UNCHANGED <<args, main_calls, help_printed>>

\* run_function, line 30: command_to_run.main(args).
run_function_call ==
    /\ m_pc = "call"
    /\ main_calls' = Append(main_calls, command_to_run)
    /\ m_pc' = "done"
    /\ UNCHANGED <<alignVars, tidyVars, configVars, minionVars>>
    /\ UNCHANGED <<args, command_to_run, help_printed>>

MainNext == betaduck_main \/ run_function_select \/ run_function_call

(***************************************************************************)
(*                      prom_beta_align_wrapper.py                         *)
(***************************************************************************)
\* class Genome: the paths of a genome directory.  The lambda fields exist
\* only with w_lambda; every use of them is guarded by genome.w_lambda.
Genome(w_lambda) ==
    [path                         |-> "genome_dir",
     host_genome_path             |-> "genome_dir/genome.fa",
     host_minimap2_index          |-> "genome_dir/genome.mmi",
     w_lambda                     |-> w_lambda,
     host_w_lambda_genome_path    |-> "genome_dir/genome.w_lambda.fa",
     host_w_lambda_minimap2_index |-> "genome_dir/genome.w_lambda.mmi",
     lambda_path                  |-> "lambda",
     lambda_genome_path           |-> "lambda/genome.fa",
     lambda_genome_bed            |-> "lambda/genome.bed",
     lambda_samtools_index        |-> "lambda/genome.fa.fai"]

\* The download of lambda_genome (line 122) and its decompressed name.
LambdaGz  == "lambda/GCF_genomic.fna.gz"
LambdaFna == "lambda/GCF_genomic.fna"

\* The directories main and generate_alignment create under --output_dir.
OutputDir    == "out"
HostDir      == "out/genome"
LambdaOutDir == "out/lambda"
UnalignedDir == "out/unaligned"
QcDir        == "out/wub"

\* class SubFolder: the index every alignment job of the sample reads.
SubFolderIndex(genome) ==
    IF genome.w_lambda THEN genome.host_w_lambda_minimap2_index
    ELSE genome.host_minimap2_index

\* class Sample: the attributes __init__ sets on each branch.
SampleAttributes(w_lambda) ==
    {"fastq_files", "genome", "w_lambda", "alignment_objects", "flowcell",
     "rnumber", "sample_prefix", "unaligned_merged_bam_file",
     "unaligned_merged_pickle_file", "unaligned_files", "unaligned_pickles",
     "host_merged_bam_file", "host_merged_pickle_file", "host_alignment_files",
     "merged_bam_files", "merged_reference_names", "merged_references",
     "merged_pickles"} \cup
    (IF w_lambda
     THEN {"lambda_merged_bam_file", "lambda_merged_pickle_file",
           "lambda_alignment_files", "host_alignment_pickles",
           "lambda_alignment_pickles"}
     ELSE {})

\* Sample.merged_bam_files and Sample.merged_pickles (lines 70-75, 84-87).
merged_bam_files(w_lambda) ==
    IF w_lambda
    THEN << <<"host_merged_bam", 0>>, <<"unaligned_merged_bam", 0>>,
            <<"lambda_merged_bam", 0>> >>
    ELSE << <<"host_merged_bam", 0>>, <<"unaligned_merged_bam", 0>> >>

merged_pickles(w_lambda) ==
    IF w_lambda
    THEN << <<"host_merged_pickle", 0>>, <<"unaligned_merged_pickle", 0>>,
            <<"lambda_merged_pickle", 0>> >>
    ELSE << <<"host_merged_pickle", 0>>, <<"unaligned_merged_pickle", 0>> >>

\* Python truthiness of a str: only the empty string is false.
Truthy(s) == s # ""

\* PoolSize without the thread kept back for the parent script.
PoolSizeAllThreads(threads) == threads

\* threads = 1 if args.threads == 1 else args.threads - 1 (line 441).
PoolSize(threads) == IF threads = 1 THEN 1 ELSE threads - 1

\* The call sites whose return code the code tests and logs.
ReturncodeChecked ==
    {"minimap2_index", "align_pipe", "samtools_index", "samtools_merge",
     "merge_index", "bam_alignment_qc", "bam_multi_qc"}

\* The exit codes a subprocess may return: a command may newly fail while
\* the failure budget lasts, and a command that failed before may fail again.
ExitCodes(st, tool) ==
    IF tool \in st.failed \/ Cardinality(st.failed) < MaxFailures
    THEN {0, 1} ELSE {0}

\* The record of one subprocess call: rc is its exit code.
Invoke(st, tool, rc) ==
    [invoked |-> st.invoked \cup {tool},
     failed  |-> IF rc # 0 THEN st.failed \cup {tool} ELSE st.failed,
     logged  |-> IF rc # 0 /\ tool \in ReturncodeChecked
                 THEN st.logged \cup {tool} ELSE st.logged]

Calls == [invoked |-> invoked, failed |-> failed, logged |-> logged]

SetCalls(st) ==
    /\ invoked' = st.invoked
    /\ failed' = st.failed
    /\ logged' = st.logged

\* MainOrder with check_index called before the lambda genome is combined.
MainOrderIndexFirst ==
    <<"check_args",
      "gi_check_genome", "gi_lambda_genome", "gi_faidx", "gi_bed",
      "gi_check_index", "gi_combine",
      "submit_align", "align_pool", "merge_bams", "submit_qc", "qc_pool",
      "merge_pickles", "multiqc", "done">>

\* The order of main's steps; get_index (line 435) is unfolded into the
\* steps gi_* in the order of its body.
MainOrder ==
    <<"check_args",
      "gi_check_genome", "gi_lambda_genome", "gi_faidx", "gi_bed",
      "gi_combine", "gi_check_index",
      "submit_align", "align_pool", "merge_bams", "submit_qc", "qc_pool",
      "merge_pickles", "multiqc", "done">>

Pos(step) == CHOOSE i \in 1..Len(MainOrder) : MainOrder[i] = step
After(step) == MainOrder[Pos(step) + 1]
\* main is at or past `step` (and neither exited nor raised).
Reached(step) == a_pc \in Range(MainOrder) /\ Pos(a_pc) >= Pos(step)

Jobs == 1..fastqs

\* The BAM files of a run: SubFolder.host_aligned, .lambda_aligned and
\* .unaligned of every FASTQ file, and the pooled files of the sample.
PerFileBams(j, w_lambda) ==
    {<<"host_aligned", j>>, <<"unaligned", j>>} \cup
    (IF w_lambda THEN {<<"lambda_aligned", j>>} ELSE {})

PooledBams == Range(merged_bam_files(a_args.w_lambda))

AllBams == PooledBams \cup UNION {PerFileBams(j, TRUE) : j \in Jobs}

\* The states main can be started in.  The lambda files are created in the
\* order get_index creates them; without w_lambda no lambda path is read.
GenomeStates(w) ==
    LET g == Genome(w)
        idx == IF w THEN {g.host_w_lambda_genome_path,
                          g.host_w_lambda_minimap2_index}
               ELSE {g.host_minimap2_index}
    IN  {{}, {g.path}} \cup
        {{g.path, g.host_genome_path} \cup x : x \in SUBSET idx}

LambdaStates(w) ==
    LET g == Genome(w)
    IN  IF w
        THEN {{}, {g.lambda_path}, {g.lambda_path, g.lambda_genome_path},
              {g.lambda_path, g.lambda_genome_path, g.lambda_samtools_index},
              {g.lambda_path, g.lambda_genome_path, g.lambda_samtools_index,
               g.lambda_genome_bed}}
        ELSE {{}}

OutputStates(w) ==
    {{}, {OutputDir, HostDir, UnalignedDir, QcDir} \cup
         (IF w THEN {LambdaOutDir} ELSE {})}

AlignInit ==
    /\ a_args \in [w_lambda : BOOLEAN, threads : 1..MaxThreads]
    /\ fastqs \in 0..MaxFastq
    /\ \E g \in GenomeStates(a_args.w_lambda),
          l \in LambdaStates(a_args.w_lambda),
          o \in OutputStates(a_args.w_lambda) : fs = g \cup l \cup o
    /\ fs0 = fs
    /\ a_pc = "check_args"
    /\ jobs = [j \in Jobs |-> "none"]
    /\ submitted = [j \in Jobs |-> 0]
    /\ qjobs = [j \in Jobs |-> "none"]
    /\ touched = [j \in Jobs |-> {}]
    /\ bams = {}
    /\ pickles = {}
    /\ qc_runs = [b \in AllBams |-> 0]
    /\ report_inputs = <<>>
    /\ index_calls = 0
    /\ combined = FALSE
    /\ invoked = {}
    /\ failed = {}
    /\ logged = {}

AlignIdle ==
    /\ a_args = [w_lambda |-> FALSE, threads |-> 1]
    /\ fastqs = 0
    /\ fs = {}
    /\ fs0 = {}
    /\ a_pc = "idle"
    /\ jobs = <<>>
    /\ submitted = <<>>
    /\ qjobs = <<>>
    /\ touched = <<>>
    /\ bams = {}
    /\ pickles = {}
    /\ qc_runs = <<>>
    /\ report_inputs = <<>>
    /\ index_calls = 0
    /\ combined = FALSE
    /\ invoked = {}
    /\ failed = {}
    /\ logged = {}

\* ---- main, line 431: check_args creates --output_dir when absent.
check_args ==
    /\ a_pc = "check_args"
    /\ fs' = fs \cup {OutputDir}
    /\ a_pc' = After("check_args")
    /\ UNCHANGED <<mainVars, tidyVars, configVars, minionVars>>
    /\ UNCHANGED <<a_args, fastqs, fs0, jobs, submitted, qjobs, touched, bams,
                   pickles, qc_runs, report_inputs, index_calls, combined,
                   invoked, failed, logged>>

\* ---- get_index, lines 302-315: sys.exit() without the genome directory;
\* without genome.fa line 313 reads the undefined genome.genome_host_path.
gi_check_genome ==
    /\ a_pc = "gi_check_genome"
    /\ LET g == Genome(a_args.w_lambda)
       IN  a_pc' = IF g.path \notin fs THEN "exit"
                   ELSE IF g.host_genome_path \notin fs THEN "raised"
                   ELSE After("gi_check_genome")
    /\ UNCHANGED <<mainVars, tidyVars, configVars, minionVars>>
    /\ UNCHANGED <<a_args, fastqs, fs, fs0, jobs, submitted, qjobs, touched,
                   bams, pickles, qc_runs, report_inputs, index_calls,
                   combined, invoked, failed, logged>>

\* ---- get_index, lines 318-328: create the lambda directory, download the
\* lambda genome with curl, gzip --decompress it and move it into place.
\* Neither return code is read; shutil.move raises when the file is missing.
gi_lambda_genome ==
    /\ a_pc = "gi_lambda_genome"
    /\ LET g == Genome(a_args.w_lambda)
           fs1 == IF g.w_lambda THEN fs \cup {g.lambda_path} ELSE fs
       IN  IF g.w_lambda /\ g.lambda_genome_path \notin fs1
           THEN \E curl_rc \in ExitCodes(Calls, "curl") :
                  LET st1 == Invoke(Calls, "curl", curl_rc)
                      fs2 == IF curl_rc = 0 THEN fs1 \cup {LambdaGz} ELSE fs1
                  IN  \E gzip_rc \in (IF LambdaGz \in fs2
                                      THEN ExitCodes(st1, "gzip") ELSE {1}) :
                        LET st2 == Invoke(st1, "gzip", gzip_rc)
                            fs3 == IF gzip_rc = 0
                                   THEN (fs2 \ {LambdaGz}) \cup {LambdaFna}
                                   ELSE fs2
                        IN  /\ SetCalls(st2)
                            /\ IF LambdaFna \in fs3
                               THEN /\ fs' = (fs3 \ {LambdaFna})
                                             \cup {g.lambda_genome_path}
                                    /\ a_pc' = After("gi_lambda_genome")
                               ELSE /\ fs' = fs3
                                    /\ a_pc' = "raised"
           ELSE /\ fs' = fs1
                /\ a_pc' = After("gi_lambda_genome")
                /\ UNCHANGED <<invoked, failed, logged>>
    /\ UNCHANGED <<mainVars, tidyVars, configVars, minionVars>>
    /\ UNCHANGED <<a_args, fastqs, fs0, jobs, submitted, qjobs, touched, bams,
                   pickles, qc_runs, report_inputs, index_calls, combined>>

\* ---- get_index, lines 330-331: samtools faidx; the return code is not read.
gi_faidx ==
    /\ a_pc = "gi_faidx"
    /\ LET g == Genome(a_args.w_lambda)
       IN  IF g.w_lambda /\ g.lambda_samtools_index \notin fs
           THEN \E rc \in ExitCodes(Calls, "faidx") :
                  /\ SetCalls(Invoke(Calls, "faidx", rc))
                  /\ fs' = IF rc = 0 THEN fs \cup {g.lambda_samtools_index}
                           ELSE fs
           ELSE UNCHANGED <<fs, invoked, failed, logged>>
    /\ a_pc' = After("gi_faidx")
    /\ UNCHANGED <<mainVars, tidyVars, configVars, minionVars>>
    /\ UNCHANGED <<a_args, fastqs, fs0, jobs, submitted, qjobs, touched, bams,
                   pickles, qc_runs, report_inputs, index_calls, combined>>

\* ---- get_index, lines 333-337: write lambda/genome.bed.
gi_bed ==
    /\ a_pc = "gi_bed"
    /\ LET g == Genome(a_args.w_lambda)
       IN  fs' = IF g.w_lambda /\ g.lambda_genome_bed \notin fs
                 THEN fs \cup {g.lambda_genome_bed} ELSE fs
    /\ a_pc' = After("gi_bed")
    /\ UNCHANGED <<mainVars, tidyVars, configVars, minionVars>>
    /\ UNCHANGED <<a_args, fastqs, fs0, jobs, submitted, qjobs, touched, bams,
                   pickles, qc_runs, report_inputs, index_calls, combined,
                   invoked, failed, logged>>

\* ---- get_index, lines 339-340, and combine_lambda_genome: write the host
\* records and then the lambda record into genome.w_lambda.fa.
gi_combine ==
    /\ a_pc = "gi_combine"
    /\ LET g == Genome(a_args.w_lambda)
       IN  IF g.w_lambda /\ g.host_w_lambda_genome_path \notin fs
           THEN /\ fs' = fs \cup {g.host_w_lambda_genome_path}
                /\ combined' = TRUE
           ELSE UNCHANGED <<fs, combined>>
    /\ a_pc' = After("gi_combine")
    /\ UNCHANGED <<mainVars, tidyVars, configVars, minionVars>>
    /\ UNCHANGED <<a_args, fastqs, fs0, jobs, submitted, qjobs, touched, bams,
                   pickles, qc_runs, report_inputs, index_calls,
                   invoked, failed, logged>>

\* check_index: the generate_index call it makes, if any.  Both conditions
\* test a path STRING for falsity, not the existence of a file.
check_index(genome) ==
    IF genome.w_lambda /\ ~Truthy(genome.host_w_lambda_minimap2_index)
    THEN [call |-> TRUE,
          index_file |-> genome.host_w_lambda_minimap2_index,
          genome_file |-> genome.host_w_lambda_genome_path]
    ELSE IF ~genome.w_lambda /\ ~Truthy(genome.host_genome_path)
    THEN [call |-> TRUE,
          index_file |-> genome.host_minimap2_index,
          genome_file |-> genome.host_genome_path]
    ELSE [call |-> FALSE, index_file |-> "", genome_file |-> ""]

\* generate_index: minimap2 -d index_file genome_file writes the index when
\* it succeeds; a non-zero return code is logged.
generate_index(files, st, index_file, genome_file, rc) ==
    [fs    |-> IF rc = 0 THEN files \cup {index_file} ELSE files,
     calls |-> Invoke(st, "minimap2_index", rc)]

\* ---- get_index, line 343: check_index(genome).
gi_check_index ==
    /\ a_pc = "gi_check_index"
    /\ LET c == check_index(Genome(a_args.w_lambda))
       IN  IF c.call
           THEN \E rc \in ExitCodes(Calls, "minimap2_index") :
                  LET r == generate_index(fs, Calls, c.index_file,
                                          c.genome_file, rc)
                  IN  /\ fs' = r.fs
                      /\ SetCalls(r.calls)
                      /\ index_calls' = index_calls + 1
           ELSE UNCHANGED <<fs, invoked, failed, logged, index_calls>>
    /\ a_pc' = After("gi_check_index")
    /\ UNCHANGED <<mainVars, tidyVars, configVars, minionVars>>
    /\ UNCHANGED <<a_args, fastqs, fs0, jobs, submitted, qjobs, touched, bams,
                   pickles, qc_runs, report_inputs, combined>>

\* ---- concurrent.futures.ThreadPoolExecutor as main uses it.
\* The jobs a worker thread is executing.
Running(js) == {j \in DOMAIN js : js[j] \notin {"none", "queued", "done", "raised"}}

\* The work queue is FIFO: the next job a free worker takes.
NextQueued(js, j) ==
    /\ js[j] = "queued"
    /\ \A k \in DOMAIN js : js[k] = "queued" => j <= k

\* A worker is free: fewer than max_workers jobs are being executed.
WorkerFree(js, max_workers) == Cardinality(Running(js)) < max_workers

\* PoolDrained as executor.shutdown(wait=False) would leave it: main goes on
\* as soon as no job is waiting in the queue.
PoolDrainedNoWait(js) == \A j \in DOMAIN js : js[j] # "queued"

\* Leaving the `with` block is executor.shutdown(wait=True): every submitted
\* job has finished, normally or by raising.
PoolDrained(js) == \A j \in DOMAIN js : js[j] \in {"done", "raised"}

\* ---- main, lines 438-456: build the Sample (collect_fastqs exits without
\* FASTQ files), create the host and lambda output directories, and submit
\* one generate_alignment job per alignment object.
submit_align ==
    /\ a_pc = "submit_align"
    /\ IF fastqs = 0
       THEN /\ a_pc' = "exit"
            /\ UNCHANGED <<fs, jobs, submitted>>
       ELSE /\ fs' = fs \cup {HostDir} \cup
                     (IF a_args.w_lambda THEN {LambdaOutDir} ELSE {})
            /\ jobs' = [j \in Jobs |-> "queued"]
            /\ submitted' = [j \in Jobs |-> submitted[j] + 1]
            /\ a_pc' = After("submit_align")
    /\ UNCHANGED <<mainVars, tidyVars, configVars, minionVars>>
    /\ UNCHANGED <<a_args, fastqs, fs0, qjobs, touched, bams, pickles, qc_runs,
                   report_inputs, index_calls, combined, invoked, failed,
                   logged>>

\* ---- generate_alignment, lines 153-169: a worker takes the job, builds
\* the command and tests whether the unaligned directory exists.
align_start(j) ==
    /\ a_pc = "align_pool"
    /\ NextQueued(jobs, j)
    /\ WorkerFree(jobs, PoolSize(a_args.threads))
    /\ jobs' = [jobs EXCEPT ![j] = IF UnalignedDir \in fs THEN "pipe"
                                   ELSE "mkdir"]
    /\ UNCHANGED <<mainVars, tidyVars, configVars, minionVars>>
    /\ UNCHANGED <<a_args, fastqs, fs, fs0, a_pc, submitted, qjobs, touched,
                   bams, pickles, qc_runs, report_inputs, index_calls,
                   combined, invoked, failed, logged>>

\* ---- generate_alignment, line 170: os.mkdir raises FileExistsError when
\* the directory was created since the test of line 169.
align_mkdir(j) ==
    /\ a_pc = "align_pool"
    /\ jobs[j] = "mkdir"
    /\ touched' = [touched EXCEPT ![j] = @ \cup {<<UnalignedDir, 0>>}]
    /\ IF UnalignedDir \in fs
       THEN /\ jobs' = [jobs EXCEPT ![j] = "raised"]
            /\ fs' = fs
       ELSE /\ jobs' = [jobs EXCEPT ![j] = "pipe"]
            /\ fs' = fs \cup {UnalignedDir}
    /\ UNCHANGED <<mainVars, tidyVars, configVars, minionVars>>
    /\ UNCHANGED <<a_args, fastqs, fs0, a_pc, submitted, qjobs, bams, pickles,
                   qc_runs, report_inputs, index_calls, combined, invoked,
                   failed, logged>>

\* ---- generate_alignment, lines 172-215: the minimap2 | samtools pipe
\* writes the job's BAM files (the last process's return code is logged),
\* then samtools index runs on each aligned BAM.
align_run(j) ==
    /\ a_pc = "align_pool"
    /\ jobs[j] = "pipe"
    /\ \E pipe_rc \in ExitCodes(Calls, "align_pipe") :
         LET st1 == Invoke(Calls, "align_pipe", pipe_rc)
         IN  \E index_rc \in (IF pipe_rc = 0
                              THEN ExitCodes(st1, "samtools_index") ELSE {1}) :
               /\ SetCalls(Invoke(st1, "samtools_index", index_rc))
               /\ bams' = IF pipe_rc = 0
                          THEN bams \cup PerFileBams(j, a_args.w_lambda)
                          ELSE bams
    /\ touched' = [touched EXCEPT
                     ![j] = @ \cup PerFileBams(j, a_args.w_lambda)]
    /\ jobs' = [jobs EXCEPT ![j] = "done"]
    /\ UNCHANGED <<mainVars, tidyVars, configVars, minionVars>>
    /\ UNCHANGED <<a_args, fastqs, fs, fs0, a_pc, submitted, qjobs, pickles,
                   qc_runs, report_inputs, index_calls, combined>>

\* ---- main, lines 457-459 and the end of the `with` block: item.result()
\* re-raises a job's exception once the pool has drained.
await_align ==
    /\ a_pc = "align_pool"
    /\ PoolDrained(jobs)
    /\ a_pc' = IF \E j \in Jobs : jobs[j] = "raised" THEN "raised"
               ELSE After("align_pool")
    /\ UNCHANGED <<mainVars, tidyVars, configVars, minionVars>>
    /\ UNCHANGED <<a_args, fastqs, fs, fs0, jobs, submitted, qjobs, touched,
                   bams, pickles, qc_runs, report_inputs, index_calls,
                   combined, invoked, failed, logged>>

\* The per-file BAM files samtools merge reads for a pooled file
\* (merge_bams, lines 362-367).
MergeInputs(pooled) ==
    LET kind == CASE pooled[1] = "host_merged_bam"      -> "host_aligned"
                  [] pooled[1] = "unaligned_merged_bam" -> "unaligned"
                  [] OTHER                              -> "lambda_aligned"
    IN  {<<kind, j>> : j \in Jobs}

\* ---- merge_bams: samtools merge -f then samtools index for the host, the
\* unaligned and (with lambda) the lambda pooled file; `bad` are the pooled
\* files whose merge returned non-zero.
merge_bams ==
    /\ a_pc = "merge_bams"
    /\ \E bad \in SUBSET PooledBams :
         /\ {p \in PooledBams : ~(MergeInputs(p) \subseteq bams)} \subseteq bad
         /\ (\E p \in bad : MergeInputs(p) \subseteq bams)
               => 1 \in ExitCodes(Calls, "samtools_merge")
         /\ LET st1 == Invoke(Calls, "samtools_merge",
                              IF bad = {} THEN 0 ELSE 1)
            IN  \E index_rc \in (IF bad = {}
                                 THEN ExitCodes(st1, "merge_index") ELSE {1}) :
                  SetCalls(Invoke(st1, "merge_index", index_rc))
         /\ bams' = bams \cup (PooledBams \ bad)
    /\ a_pc' = After("merge_bams")
    /\ UNCHANGED <<mainVars, tidyVars, configVars, minionVars>>
    /\ UNCHANGED <<a_args, fastqs, fs, fs0, jobs, submitted, qjobs, touched,
                   pickles, qc_runs, report_inputs, index_calls, combined>>

\* ---- main, lines 465-473: create the QC directory and submit one
\* generate_pickle job per alignment object.
submit_qc ==
    /\ a_pc = "submit_qc"
    /\ fs' = fs \cup {QcDir}
    /\ qjobs' = [j \in Jobs |-> "queued"]
    /\ a_pc' = After("submit_qc")
    /\ UNCHANGED <<mainVars, tidyVars, configVars, minionVars>>
    /\ UNCHANGED <<a_args, fastqs, fs0, jobs, submitted, touched, bams,
                   pickles, qc_runs, report_inputs, index_calls, combined,
                   invoked, failed, logged>>

\* ---- a worker of the QC pool takes the next generate_pickle job.
qc_start(j) ==
    /\ a_pc = "qc_pool"
    /\ NextQueued(qjobs, j)
    /\ WorkerFree(qjobs, PoolSize(a_args.threads))
    /\ qjobs' = [qjobs EXCEPT ![j] = "running"]
    /\ UNCHANGED <<mainVars, tidyVars, configVars, minionVars>>
    /\ UNCHANGED <<a_args, fastqs, fs, fs0, a_pc, jobs, submitted, touched,
                   bams, pickles, qc_runs, report_inputs, index_calls,
                   combined, invoked, failed, logged>>

\* The BAM files generate_pickle runs bam_alignment_qc.py on: the job's
\* host_aligned and, with lambda, its lambda_aligned (lines 221-247); the
\* run on the unaligned BAM is commented out (lines 258-261).
QcTargets(j, w_lambda) ==
    {<<"host_aligned", j>>} \cup
    (IF w_lambda THEN {<<"lambda_aligned", j>>} ELSE {})

\* The pickle bam_alignment_qc.py -p writes for a BAM file.
PickleOf(bam) ==
    IF bam[1] = "host_aligned" THEN <<"host_pickle", bam[2]>>
    ELSE <<"lambda_pickle", bam[2]>>

\* ---- generate_pickle: `bad` are the targets whose QC returned non-zero;
\* QC of a BAM file that was never written fails.
generate_pickle(j) ==
    /\ a_pc = "qc_pool"
    /\ qjobs[j] = "running"
    /\ LET targets == QcTargets(j, a_args.w_lambda)
       IN  \E bad \in SUBSET targets :
             /\ (targets \ bams) \subseteq bad
             /\ (bad \cap bams) # {} => 1 \in ExitCodes(Calls, "bam_alignment_qc")
             /\ SetCalls(Invoke(Calls, "bam_alignment_qc",
                                IF bad = {} THEN 0 ELSE 1))
             /\ pickles' = pickles \cup {PickleOf(b) : b \in targets \ bad}
             /\ qc_runs' = [b \in DOMAIN qc_runs |->
                              IF b \in targets THEN qc_runs[b] + 1
                              ELSE qc_runs[b]]
    /\ qjobs' = [qjobs EXCEPT ![j] = "done"]
    /\ UNCHANGED <<mainVars, tidyVars, configVars, minionVars>>
    /\ UNCHANGED <<a_args, fastqs, fs, fs0, a_pc, jobs, submitted, touched,
                   bams, report_inputs, index_calls, combined>>

\* ---- main, lines 474-476 and the end of the second `with` block.
await_qc ==
    /\ a_pc = "qc_pool"
    /\ PoolDrained(qjobs)
    /\ a_pc' = After("qc_pool")
    /\ UNCHANGED <<mainVars, tidyVars, configVars, minionVars>>
    /\ UNCHANGED <<a_args, fastqs, fs, fs0, jobs, submitted, qjobs, touched,
                   bams, pickles, qc_runs, report_inputs, index_calls,
                   combined, invoked, failed, logged>>

\* ---- merge_pickles: reads sample.host_alignment_pickles, which Sample
\* sets only with w_lambda (AttributeError otherwise); pickle_load raises
\* on a pickle that QC did not write.
merge_pickles ==
    /\ a_pc = "merge_pickles"
    /\ LET needed == {PickleOf(b) : b \in UNION {QcTargets(j, a_args.w_lambda)
                                                 : j \in Jobs}}
           host == {p \in needed : p[1] = "host_pickle"}
       IN  IF "host_alignment_pickles" \notin SampleAttributes(a_args.w_lambda)
              \/ ~(host \subseteq pickles)
           THEN /\ pickles' = pickles
                /\ a_pc' = "raised"
           ELSE IF ~a_args.w_lambda
           THEN /\ pickles' = pickles \cup {<<"host_merged_pickle", 0>>}
                /\ a_pc' = After("merge_pickles")
           ELSE IF needed \subseteq pickles
           THEN /\ pickles' = pickles \cup {<<"host_merged_pickle", 0>>,
                                            <<"lambda_merged_pickle", 0>>}
                /\ a_pc' = After("merge_pickles")
           ELSE /\ pickles' = pickles \cup {<<"host_merged_pickle", 0>>}
                /\ a_pc' = "raised"
    /\ UNCHANGED <<mainVars, tidyVars, configVars, minionVars>>
    /\ UNCHANGED <<a_args, fastqs, fs, fs0, jobs, submitted, qjobs, touched,
                   bams, qc_runs, report_inputs, index_calls, combined,
                   invoked, failed, logged>>

\* ---- run_wubber_multiqc: bam_multi_qc.py on sample.merged_pickles.
run_wubber_multiqc ==
    /\ a_pc = "multiqc"
    /\ report_inputs' = merged_pickles(a_args.w_lambda)
    /\ \E rc \in ExitCodes(Calls, "bam_multi_qc") :
         SetCalls(Invoke(Calls, "bam_multi_qc", rc))
    /\ a_pc' = After("multiqc")
    /\ UNCHANGED <<mainVars, tidyVars, configVars, minionVars>>
    /\ UNCHANGED <<a_args, fastqs, fs, fs0, jobs, submitted, qjobs, touched,
                   bams, pickles, qc_runs, index_calls, combined>>

AlignNext ==
    \/ check_args
    \/ gi_check_genome
    \/ gi_lambda_genome
    \/ gi_faidx
    \/ gi_bed
    \/ gi_combine
    \/ gi_check_index
    \/ submit_align
    \/ \E j \in Jobs : align_start(j)
    \/ \E j \in Jobs : align_mkdir(j)
    \/ \E j \in Jobs : align_run(j)
    \/ await_align
    \/ merge_bams
    \/ submit_qc
    \/ \E j \in Jobs : qc_start(j)
    \/ \E j \in Jobs : generate_pickle(j)
    \/ await_qc
    \/ merge_pickles
    \/ run_wubber_multiqc

(***************************************************************************)
(*                     prom_beta_tar_gen_config.py                         *)
(***************************************************************************)
\* A file name <FLOWCELL>_<RUN_ID>_<N>.fastq is modelled by its number N, a
\* string of decimal digits by the sequence of its digits.
RECURSIVE digits(_)
digits(n) == IF n < 10 THEN <<n>> ELSE digits(n \div 10) \o <<n % 10>>

\* Line 23.
zfill == 5

\* str.zfill(width): zeros on the left up to width, never a truncation.
str_zfill(s, width) ==
    IF Len(s) >= width THEN s
    ELSE [i \in 1..(width - Len(s)) |-> 0] \o s

\* How Python orders two strings (max() of line 192 compares strings).
RECURSIVE str_lt(_, _)
str_lt(a, b) ==
    IF a = <<>> THEN b # <<>>
    ELSE IF b = <<>> THEN FALSE
    ELSE IF a[1] # b[1] THEN a[1] < b[1]
    ELSE str_lt(Tail(a), Tail(b))

str_max(S) == CHOOSE m \in S : \A x \in S : x = m \/ str_lt(x, m)

\* Series.unique() and DataFrame.drop_duplicates(): the values in the order
\* of their first appearance.
RECURSIVE drop_duplicates(_)
drop_duplicates(s) ==
    IF s = <<>> THEN <<>>
    ELSE LET r == drop_duplicates(SubSeq(s, 1, Len(s) - 1))
         IN  IF s[Len(s)] \in Range(r) THEN r ELSE Append(r, s[Len(s)])

\* Lines 25-31.
config_columns ==
    <<"zfill_num", "rand_id",
      "fast5_pass_file", "fast5_pass_file_renamed",
      "fast5_fail_file", "fast5_fail_file_renamed",
      "fastq_pass_file", "fastq_pass_file_renamed",
      "fastq_fail_file", "fastq_fail_file_renamed",
      "md5_fast5_pass", "md5_fastq_pass",
      "md5_fast5_fail", "md5_fastq_fail">>

\* get_all_files, lines 77-120: the row of the file numbered num.  A path
\* is <<directory, role, name>>: the instrument's file ("in") is named by
\* its number, the renamed .gz ("out") by its zero-filled number, and the
\* four checksum files ("md5") have one fixed name each, whatever the row.
config_row(num) ==
    LET zfill_num == str_zfill(digits(num), zfill)
    IN  [zfill_num               |-> zfill_num,
         rand_id                 |-> "rand_id",
         fast5_pass_file         |-> <<"fast5_pass", "in", num>>,
         fast5_pass_file_renamed |-> <<"fast5_pass", "out", zfill_num>>,
         fast5_fail_file         |-> <<"fast5_fail", "in", num>>,
         fast5_fail_file_renamed |-> <<"fast5_fail", "out", zfill_num>>,
         fastq_pass_file         |-> <<"fastq_pass", "in", num>>,
         fastq_pass_file_renamed |-> <<"fastq_pass", "out", zfill_num>>,
         fastq_fail_file         |-> <<"fastq_fail", "in", num>>,
         fastq_fail_file_renamed |-> <<"fastq_fail", "out", zfill_num>>,
         md5_fast5_pass          |-> <<"fast5_pass", "md5", "checksum.fast5.pass.md5">>,
         md5_fastq_pass          |-> <<"fastq_pass", "md5", "checksum.fastq.pass.md5">>,
         md5_fast5_fail          |-> <<"fast5_fail", "md5", "checksum.fast5.fail.md5">>,
         md5_fastq_fail          |-> <<"fast5_fail", "md5", "checksum.fastq.fail.md5">>]

\* get_all_files, lines 63-121: one row per distinct file of the summary.
get_all_files(summary) ==
    LET unique_files == drop_duplicates(summary)
    IN  [i \in 1..Len(unique_files) |-> config_row(unique_files[i])]

\* output_yaml, line 127: set_index('zfill_num', drop=False) and
\* to_json(orient='index') give a mapping from each row's zfill_num to the
\* row, itself a mapping from column name to value.
output_yaml(dataset) ==
    [z \in {dataset[i].zfill_num : i \in 1..Len(dataset)} |->
        dataset[CHOOSE i \in 1..Len(dataset) : dataset[i].zfill_num = z]]

ConfigInit ==
    /\ c_args \in [active : BOOLEAN, sanitiser : BOOLEAN,
                   run_dir_fields : 4..6, bulk_exists : BOOLEAN]
    /\ c_summary \in UNION {[1..n -> 0..MaxFileNum] : n \in 0..MaxReads}
    /\ c_pc = "start"
    /\ config_df = <<>>
    /\ summary_df = <<>>
    /\ mini_i = 0
    /\ mini_written = {}
    /\ c_yaml = <<>>
    /\ c_tools = <<>>

ConfigIdle ==
    /\ c_args = [active |-> FALSE, sanitiser |-> FALSE, run_dir_fields |-> 5,
                 bulk_exists |-> FALSE]
    /\ c_summary = <<>>
    /\ c_pc = "idle"
    /\ config_df = <<>>
    /\ summary_df = <<>>
    /\ mini_i = 0
    /\ mini_written = {}
    /\ c_yaml = <<>>
    /\ c_tools = <<>>

\* ---- main, lines 211-214: the sanitiser runs on both fastq directories;
\* sanitise_fastq_files only warns about a non-zero exit code.
sanitise_fastq_files ==
    /\ c_pc = "start"
    /\ c_tools' = IF c_args.sanitiser
                  THEN c_tools \o << <<"fix_concatenated_fastqs", "fastq_pass">>,
                                     <<"fix_concatenated_fastqs", "fastq_fail">> >>
                  ELSE c_tools
    /\ c_pc' = "run_dir"
    /\ UNCHANGED <<mainVars, alignVars, tidyVars, minionVars>>
    /\ UNCHANGED <<c_args, c_summary, config_df, summary_df, mini_i,
                   mini_written, c_yaml>>

\* ---- main, lines 218-224: the run directory's name must split into
\* exactly five fields, else sys.exit(1).
config_run_dir ==
    /\ c_pc = "run_dir"
    /\ c_pc' = IF c_args.run_dir_fields = 5 THEN "get_all_files" ELSE "exit"
    /\ UNCHANGED <<mainVars, alignVars, tidyVars, minionVars>>
    /\ UNCHANGED <<c_args, c_summary, config_df, summary_df, mini_i,
                   mini_written, c_yaml, c_tools>>

\* ---- main, lines 243-246: read the summary and build the config table;
\* pd.concat of an empty list (line 121) raises ValueError.
config_get_all_files ==
    /\ c_pc = "get_all_files"
    /\ IF c_summary = <<>>
       THEN /\ c_pc' = "raised"
            /\ config_df' = config_df
       ELSE /\ c_pc' = "tidy_summary_df"
            /\ config_df' = get_all_files(c_summary)
    /\ UNCHANGED <<mainVars, alignVars, tidyVars, minionVars>>
    /\ UNCHANGED <<c_args, c_summary, summary_df, mini_i, mini_written,
                   c_yaml, c_tools>>

\* ---- tidy_summary_df, lines 150-157: every read gets the zfill_num of
\* its file; the inner merge with the config table keeps the reads whose
\* zfill_num the table has, in the reads' order.
tidy_summary_df ==
    /\ c_pc = "tidy_summary_df"
    /\ summary_df' = SelectSeq(
           [i \in 1..Len(c_summary) |-> str_zfill(digits(c_summary[i]), zfill)],
           LAMBDA z : \E i \in 1..Len(config_df) : config_df[i].zfill_num = z)
    /\ mini_i' = 1
    /\ c_pc' = "output_mini_dfs"
    /\ UNCHANGED <<mainVars, alignVars, tidyVars, minionVars>>
    /\ UNCHANGED <<c_args, c_summary, config_df, mini_written, c_yaml, c_tools>>

\* ---- output_mini_dfs, lines 190-203: one turn of the loop.  With
\* --active the loop is left (break) at the largest zfill_num.
output_mini_dfs ==
    /\ c_pc = "output_mini_dfs"
    /\ LET unique == drop_duplicates(summary_df)
       IN  IF mini_i > Len(unique)
              \/ (c_args.active /\ unique[mini_i] = str_max(Range(summary_df)))
           THEN /\ c_pc' = "output_yaml"
                /\ UNCHANGED <<mini_i, mini_written>>
           ELSE /\ mini_written' = mini_written \cup {unique[mini_i]}
                /\ mini_i' = mini_i + 1
                /\ c_pc' = c_pc
    /\ UNCHANGED <<mainVars, alignVars, tidyVars, minionVars>>
    /\ UNCHANGED <<c_args, c_summary, config_df, summary_df, c_yaml, c_tools>>

\* ---- main, lines 258-263: copy the summary to the bulk file unless it
\* exists, then dump the whole config table to the YAML file.
config_output_yaml ==
    /\ c_pc = "output_yaml"
    /\ c_tools' = IF c_args.bulk_exists THEN c_tools
                  ELSE Append(c_tools, <<"copy", "sequencing_summary.bulk.txt">>)
    /\ c_yaml' = output_yaml(config_df)
    /\ c_pc' = "done"
    /\ UNCHANGED <<mainVars, alignVars, tidyVars, minionVars>>
    /\ UNCHANGED <<c_args, c_summary, config_df, summary_df, mini_i,
                   mini_written>>

ConfigNext ==
    \/ sanitise_fastq_files
    \/ config_run_dir
    \/ config_get_all_files
    \/ tidy_summary_df
    \/ output_mini_dfs
    \/ config_output_yaml

(***************************************************************************)
(*          prom_beta_tar_wrapper.py and prom_beta_tar_runner.py           *)
(***************************************************************************)
\* The four files of a file set, in the order the runner's main handles
\* them (lines 135-152); a file is <<kind, role, set>> with role "in" (the
\* instrument's file), "out" (the renamed .gz) or "tmp" (out + ".tmp").
KindOrder == <<"fast5_pass", "fast5_fail", "fastq_pass", "fastq_fail">>
Kinds == Range(KindOrder)
Sets == 1..nsets

\* The YAML mapping of a config is keyed by file set and then by column, as
\* output_yaml writes it (to_json(orient='index')), or by column and then
\* by file set.
Orientations == {"index", "columns"}

\* The config table of n file sets, the files numbered 1..n.
ConfigTable(n) == get_all_files([i \in 1..n |-> i])

\* read_config: the mapping yaml.load returns for the config of n file sets
\* written in orientation o.
read_config(o, n) ==
    LET by_index == output_yaml(ConfigTable(n))
    IN  IF o = "index" THEN by_index
        ELSE [c \in Range(config_columns) |->
                [z \in DOMAIN by_index |-> by_index[z][c]]]

\* Wrapper main, line 84: pd.DataFrame(mapping) makes one COLUMN per outer
\* key and one row per inner key.  named tells whether the column labels
\* are Python identifiers: the config's column names are, a zfill_num such
\* as 00001 is not.
DataFrame(mapping, o) ==
    LET columns == DOMAIN mapping
        index == UNION {DOMAIN mapping[c] : c \in columns}
    IN  [columns |-> columns,
         index   |-> index,
         named   |-> o = "columns",
         cell    |-> [r \in index |-> [c \in columns |-> mapping[c][r]]]]

\* The values of S in increasing order of Python's string comparison.
sorted(S) ==
    CHOOSE q \in [1..Cardinality(S) -> S] :
        \A i, j \in 1..Cardinality(S) : i < j => str_lt(q[i], q[j])

\* The row labels of a dataframe in row order: column names in the order of
\* config_columns, zfill_num values in increasing order.
index_list(df) ==
    IF df.named THEN sorted(df.index)
    ELSE SelectSeq(config_columns, LAMBDA c : c \in df.index)

\* Wrapper main, line 93: dataframe.itertuples() yields one namedtuple per
\* row, whose fields carry the column labels only when these are
\* identifiers (pandas renames the others to positional names).
itertuples(df) ==
    LET labels == index_list(df)
    IN  [j \in 1..Len(labels) |->
           [Index  |-> labels[j],
            named  |-> df.named,
            fields |-> IF df.named THEN df.cell[labels[j]]
                       ELSE [i \in 1..Cardinality(df.columns) |->
                               df.cell[labels[j]][sorted(df.columns)[i]]]]]

dataframe_rows(o, n) == Len(itertuples(DataFrame(read_config(o, n), o)))

\* The rows of the dataframe, numbered in row order: one job each.
Rows == DOMAIN t_jobs

\* run_process, lines 39-50, reads config_data.fastq_pass_file and the
\* other column names as attributes of the row: they exist only when the
\* columns of the dataframe are the config columns.
has_attributes(row) ==
    row.named /\ (Range(config_columns) \ {"zfill_num", "rand_id"})
                    \subseteq DOMAIN row.fields

\* run_process, lines 39-50: the twelve path options of the runner's
\* command line.
tar_command_paths(config_data) ==
    [fastq_input_pass_path  |-> config_data.fields.fastq_pass_file,
     fastq_output_pass_path |-> config_data.fields.fastq_pass_file_renamed,
     fast5_input_pass_path  |-> config_data.fields.fast5_pass_file,
     fast5_output_pass_path |-> config_data.fields.fast5_pass_file_renamed,
     fastq_input_fail_path  |-> config_data.fields.fastq_fail_file,
     fastq_output_fail_path |-> config_data.fields.fastq_fail_file_renamed,
     fast5_input_fail_path  |-> config_data.fields.fast5_fail_file,
     fast5_output_fail_path |-> config_data.fields.fast5_fail_file_renamed,
     md5_pass_fast5         |-> config_data.fields.md5_fast5_pass,
     md5_pass_fastq         |-> config_data.fields.md5_fastq_pass,
     md5_fail_fast5         |-> config_data.fields.md5_fast5_fail,
     md5_fail_fastq         |-> config_data.fields.md5_fastq_fail]

\* tar_command_flags with the --dry-run option never passed on.
tar_command_flags_no_dry_run(keep, overwrite, dry_run) ==
    (IF ~keep THEN {"--inplace"} ELSE {}) \cup
    (IF overwrite THEN {"--overwrite"} ELSE {})

\* run_process, lines 37-61: the option flags appended to the runner's
\* command line.
tar_command_flags(keep, overwrite, dry_run) ==
    (IF ~keep THEN {"--inplace"} ELSE {}) \cup
    (IF dry_run THEN {"--dry-run"} ELSE {}) \cup
    (IF overwrite THEN {"--overwrite"} ELSE {})

\* zip_and_move_file with the input file removed whatever --inplace says.
zip_and_move_file_always_remove(st, kind, set, overwrite, inplace, dry_run) ==
    LET file_path == <<kind, "in", set>>
        file_output_path == <<kind, "out", set>>
        tmp_output_path == <<kind, "tmp", set>>
    IN  IF ~dry_run
        THEN [fs  |-> ((st.fs \cup {file_output_path}) \ {tmp_output_path})
                        \ {file_path},
              ops |-> st.ops \o << <<"gzip", tmp_output_path>>,
                                   <<"move", file_output_path>>,
                                   <<"remove", file_path>> >>,
              log |-> st.log]
        ELSE [fs  |-> st.fs,
              ops |-> st.ops,
              log |-> st.log \cup {<<"would_have", kind, set>>}]

\* zip_and_move_file: st is [fs, ops, log]; the message "Skipping" of line
\* 69 is logged and the function goes on to line 73.
zip_and_move_file(st, kind, set, overwrite, inplace, dry_run) ==
    LET file_path == <<kind, "in", set>>
        file_output_path == <<kind, "out", set>>
        tmp_output_path == <<kind, "tmp", set>>
    IN  IF ~dry_run
        THEN [fs  |-> ((st.fs \cup {file_output_path}) \ {tmp_output_path})
                        \ (IF inplace THEN {file_path} ELSE {}),
              ops |-> st.ops \o << <<"gzip", tmp_output_path>>,
                                   <<"move", file_output_path>> >>
                         \o (IF inplace THEN << <<"remove", file_path>> >>
                             ELSE <<>>),
              log |-> IF file_output_path \in st.fs /\ ~overwrite
                      THEN st.log \cup {<<"skipping", kind, set>>}
                      ELSE st.log]
        ELSE [fs  |-> st.fs,
              ops |-> st.ops,
              log |-> st.log \cup {<<"would_have", kind, set>>}]

\* The runner's main, lines 135-152: zip_and_move_file for every input file
\* that exists, kind by kind from position i of KindOrder.
RECURSIVE zip_all(_, _, _, _, _, _)
zip_all(st, i, set, overwrite, inplace, dry_run) ==
    IF i > Len(KindOrder) THEN st
    ELSE zip_all(IF <<KindOrder[i], "in", set>> \in st.fs
                 THEN zip_and_move_file(st, KindOrder[i], set,
                                        overwrite, inplace, dry_run)
                 ELSE st,
                 i + 1, set, overwrite, inplace, dry_run)

\* get_md5sum: None unless the output file exists.
get_md5sum(files, kind, set) == <<kind, "out", set>> \in files

TidyInit ==
    /\ t_args \in [keep : BOOLEAN, overwrite : BOOLEAN, dry_run : BOOLEAN,
                   threads : 1..MaxThreads]
    /\ nsets \in 0..MaxSets
    /\ orient \in Orientations
    /\ \E inputs \in SUBSET Kinds, outputs \in SUBSET Kinds :
         t_fs = {<<k, "in", n>> : k \in inputs, n \in Sets} \cup
                {<<k, "out", n>> : k \in outputs, n \in Sets}
    /\ t_fs0 = t_fs
    /\ md5 = [k \in Kinds |-> {}]
    /\ t_pc = "start"
    /\ t_jobs = [n \in 1..dataframe_rows(orient, nsets) |-> "none"]
    /\ t_cmd = [n \in 1..dataframe_rows(orient, nsets) |-> {}]
    /\ t_paths = [n \in 1..dataframe_rows(orient, nsets) |-> <<>>]
    /\ t_ops = [n \in 1..dataframe_rows(orient, nsets) |-> <<>>]
    /\ t_log = {}

TidyIdle ==
    /\ t_args = [keep |-> FALSE, overwrite |-> FALSE, dry_run |-> FALSE,
                 threads |-> 1]
    /\ nsets = 0
    /\ orient = "index"
    /\ t_fs = {}
    /\ t_fs0 = {}
    /\ md5 = <<>>
    /\ t_pc = "idle"
    /\ t_jobs = <<>>
    /\ t_cmd = <<>>
    /\ t_paths = <<>>
    /\ t_ops = <<>>
    /\ t_log = {}

\* ---- wrapper main, lines 84-93: read the config and submit one
\* run_process job per row.
tidy_submit ==
    /\ t_pc = "start"
    /\ t_jobs' = [n \in Rows |-> "queued"]
    /\ t_pc' = "pool"
    /\ UNCHANGED <<mainVars, alignVars, configVars, minionVars>>
    /\ UNCHANGED <<t_args, nsets, orient, t_fs, t_fs0, md5, t_cmd, t_paths,
                   t_ops, t_log>>

\* ---- run_process, lines 34-63: a worker takes the job and builds the
\* command (AttributeError when the row lacks the config columns), then
\* starts the runner.
run_process_start(n) ==
    /\ t_pc = "pool"
    /\ NextQueued(t_jobs, n)
    /\ WorkerFree(t_jobs, PoolSize(t_args.threads))
    /\ LET config_data ==
               itertuples(DataFrame(read_config(orient, nsets), orient))[n]
       IN  IF has_attributes(config_data)
           THEN /\ t_paths' = [t_paths EXCEPT
                                 ![n] = tar_command_paths(config_data)]
                /\ t_cmd' = [t_cmd EXCEPT
                               ![n] = tar_command_flags(t_args.keep,
                                          t_args.overwrite, t_args.dry_run)]
                /\ t_jobs' = [t_jobs EXCEPT ![n] = "zip"]
           ELSE /\ UNCHANGED <<t_cmd, t_paths>>
                /\ t_jobs' = [t_jobs EXCEPT ![n] = "raised"]
    /\ UNCHANGED <<mainVars, alignVars, configVars, minionVars>>
    /\ UNCHANGED <<t_args, nsets, orient, t_fs, t_fs0, md5, t_pc, t_ops, t_log>>

\* ---- runner main, lines 134-152: gzip and move the files of the set.
runner_zip(n) ==
    /\ t_pc = "pool"
    /\ t_jobs[n] = "zip"
    /\ LET r == zip_all([fs |-> t_fs, ops |-> t_ops[n], log |-> t_log], 1, n,
                        "--overwrite" \in t_cmd[n], "--inplace" \in t_cmd[n],
                        "--dry-run" \in t_cmd[n])
       IN  /\ t_fs' = r.fs
           /\ t_ops' = [t_ops EXCEPT ![n] = r.ops]
           /\ t_log' = r.log
    /\ t_jobs' = [t_jobs EXCEPT ![n] = "md5"]
    /\ UNCHANGED <<mainVars, alignVars, configVars, minionVars>>
    /\ UNCHANGED <<t_args, nsets, orient, t_fs0, md5, t_pc, t_cmd, t_paths>>

\* ---- runner main, lines 154-173: unless --dry-run, append the md5 line of
\* every output file that exists to the checksum file of its kind.
runner_md5(n) ==
    /\ t_pc = "pool"
    /\ t_jobs[n] = "md5"
    /\ LET summed == IF "--dry-run" \in t_cmd[n] THEN {}
                     ELSE {k \in Kinds : get_md5sum(t_fs, k, n)}
       IN  /\ md5' = [k \in Kinds |-> IF k \in summed THEN md5[k] \cup {n}
                                      ELSE md5[k]]
           /\ t_ops' = [t_ops EXCEPT ![n] = @ \o
                          [i \in 1..Len(SelectSeq(KindOrder,
                                LAMBDA k : k \in summed)) |->
                             <<"append", <<SelectSeq(KindOrder,
                                LAMBDA k : k \in summed)[i], "md5", 0>> >>]]
    /\ t_jobs' = [t_jobs EXCEPT ![n] = "returning"]
    /\ UNCHANGED <<mainVars, alignVars, configVars, minionVars>>
    /\ UNCHANGED <<t_args, nsets, orient, t_fs, t_fs0, t_pc, t_cmd, t_paths,
                   t_log>>

\* ---- run_process, lines 64-75: the runner has exited; sleep, log, return.
run_process_return(n) ==
    /\ t_pc = "pool"
    /\ t_jobs[n] = "returning"
    /\ t_jobs' = [t_jobs EXCEPT ![n] = "done"]
    /\ UNCHANGED <<mainVars, alignVars, configVars, minionVars>>
    /\ UNCHANGED <<t_args, nsets, orient, t_fs, t_fs0, md5, t_pc, t_cmd,
                   t_paths, t_ops, t_log>>

\* ---- wrapper main, lines 94-96 and the end of the `with` block:
\* item.result() re-raises a job's exception once the pool has drained.
tidy_await ==
    /\ t_pc = "pool"
    /\ PoolDrained(t_jobs)
    /\ t_pc' = IF \E n \in Rows : t_jobs[n] = "raised" THEN "raised" ELSE "done"
    /\ UNCHANGED <<mainVars, alignVars, configVars, minionVars>>
    /\ UNCHANGED <<t_args, nsets, orient, t_fs, t_fs0, md5, t_jobs, t_cmd,
                   t_paths, t_ops, t_log>>

TidyNext ==
    \/ tidy_submit
    \/ \E n \in Rows : run_process_start(n)
    \/ \E n \in Rows : runner_zip(n)
    \/ \E n \in Rows : runner_md5(n)
    \/ \E n \in Rows : run_process_return(n)
    \/ tidy_await

(***************************************************************************)
(*                    minion_beta_gzip_no_basecall.py                      *)
(***************************************************************************)
\* A path is <<directory, flowcell, run id, counter, suffix>>: the name
\* <flowcell>_<run id>_<counter><suffix>, bare (directory "") as os.listdir
\* returns it or joined to the fast5 directory.
Fast5Directory == "fast5_directory"

FileName(n, suffix) == <<"", "FLOWCELL", "RUN_ID", digits(n), suffix>>

\* os.path.join(fast5_directory, name).
path_join(directory, name) == <<directory, name[2], name[3], name[4], name[5]>>

\* The name fpath + ".gz".
gz(name) == <<name[1], name[2], name[3], name[4], name[5] \o ".gz">>

\* is_open, lines 51-65: fpath equals the path of a file some process holds
\* open; psutil reports those as absolute paths.
is_open(fpath, open_paths) == fpath \in open_paths

\* check_overwrite, lines 68-79 (None, on the path without return, is
\* falsy).
check_overwrite(fpath, overwrite, files) ==
    IF overwrite THEN FALSE
    ELSE path_join("", gz(fpath)) \in files

\* get_fast5_files, lines 87-92: the names of the directory that end in
\* .fast5, are not open and are not barred by check_overwrite.  is_open is
\* handed the bare name, check_overwrite the joined path.
get_fast5_files(files, open_paths, overwrite) ==
    {fast5_file \in files :
        /\ fast5_file[5] = ".fast5"
        /\ ~is_open(fast5_file, open_paths)
        /\ ~check_overwrite(path_join(Fast5Directory, fast5_file), overwrite,
                            files)}

\* The default of get_fast5_files' overwrite parameter (line 82), which is
\* what main's call on line 168 gets.
OverwriteDefault == TRUE

\* '_'.join(map(str, a, b, c)), line 139: map draws one character of each
\* string per turn and calls str on the three, which raises TypeError; with
\* an empty string among them there is no turn and the join is empty.
join_map_str(a, b, c) ==
    [raised |-> a # "" /\ b # "" /\ c # <<>>, value |-> ""]

\* rename_fast5_files, lines 129-148.  dirname is what line 134 splits:
\* [fields, flowcell_id], fields the number of pieces rsplit("_", 4) gives.
rename_fast5_files(input_fast5_files, dirname, files, dry_run) ==
    LET fast5_file_dummy == input_fast5_files[1]
        counter == fast5_file_dummy[4]
        counter_zfill == str_zfill(counter, 5)
        trunc_run_id == "TRUNC_ID/fast5"
        joined == join_map_str(dirname.flowcell_id, trunc_run_id, counter_zfill)
        new_fast5_file == <<"", joined.value, joined.value, <<>>, ".fast5">>
        unchanged == [raised |-> TRUE, new_fast5_files |-> <<>>,
                      files |-> files, moves |-> <<>>]
    IN  IF dirname.fields # 5 THEN unchanged
        ELSE IF joined.raised THEN unchanged
        ELSE [raised |-> FALSE,
              new_fast5_files |-> [i \in 1..Len(input_fast5_files) |->
                                     new_fast5_file],
              files |-> IF dry_run THEN files
                        ELSE (files \ Range(input_fast5_files))
                               \cup {new_fast5_file},
              moves |-> IF dry_run THEN <<>>
                        ELSE [i \in 1..Len(input_fast5_files) |->
                                <<input_fast5_files[i], new_fast5_file>>]]

\* The states of one file number in the fast5 directory: its .fast5 file
\* and .fast5.gz file present or not, the .fast5 file open or not.
FileStates ==
    {st \in [fast5 : BOOLEAN, gz : BOOLEAN, open : BOOLEAN] :
        st.open => st.fast5}

MinionInit ==
    /\ g_args \in [dry_run : BOOLEAN, overwrite : BOOLEAN, rename : BOOLEAN,
                   threads : 1..MaxThreads]
    /\ g_dirname \in {[fields |-> 4, flowcell_id |-> "FLOWCELL"],
                      [fields |-> 5, flowcell_id |-> "FLOWCELL"],
                      [fields |-> 5, flowcell_id |-> ""]}
    /\ \E st \in [1..MaxFast5 -> FileStates] :
         /\ g_files = {FileName(n, ".fast5") : n \in {m \in 1..MaxFast5 : st[m].fast5}}
                \cup {FileName(n, ".fast5.gz") : n \in {m \in 1..MaxFast5 : st[m].gz}}
         /\ g_open = {path_join(Fast5Directory, FileName(n, ".fast5")) :
                         n \in {m \in 1..MaxFast5 : st[m].open}}
    /\ g_files0 = g_files
    /\ g_pc = "start"
    /\ g_inputs = <<>>
    /\ fast5_files = <<>>
    /\ g_moves = <<>>
    /\ g_jobs = <<>>

MinionIdle ==
    /\ g_args = [dry_run |-> FALSE, overwrite |-> FALSE, rename |-> FALSE,
                 threads |-> 1]
    /\ g_dirname = [fields |-> 5, flowcell_id |-> "FLOWCELL"]
    /\ g_files = {}
    /\ g_open = {}
    /\ g_files0 = {}
    /\ g_pc = "idle"
    /\ g_inputs = <<>>
    /\ fast5_files = <<>>
    /\ g_moves = <<>>
    /\ g_jobs = <<>>

\* ---- main, lines 163-171: list the files (os.listdir gives them in any
\* order) and exit when there is none.
minion_get_fast5_files ==
    /\ g_pc = "start"
    /\ LET found == get_fast5_files(g_files, g_open, OverwriteDefault)
       IN  \E listing \in [1..Cardinality(found) -> found] :
             /\ Range(listing) = found
             /\ g_inputs' = listing
             /\ fast5_files' = listing
             /\ g_pc' = IF Len(listing) = 0 THEN "exit"
                        ELSE IF g_args.rename THEN "rename"
                        ELSE "compress"
    /\ UNCHANGED <<mainVars, alignVars, tidyVars, configVars>>
    /\ UNCHANGED <<g_args, g_dirname, g_files, g_open, g_files0, g_moves, g_jobs>>

\* ---- main, lines 173-174: rename_fast5_files, which raises or returns
\* the new list.
minion_rename ==
    /\ g_pc = "rename"
    /\ LET r == rename_fast5_files(fast5_files, g_dirname, g_files,
                                   g_args.dry_run)
       IN  IF r.raised
           THEN /\ g_pc' = "raised"
                /\ UNCHANGED <<fast5_files, g_files, g_moves>>
           ELSE /\ g_pc' = "compress"
                /\ fast5_files' = r.new_fast5_files
                /\ g_files' = r.files
                /\ g_moves' = r.moves
    /\ UNCHANGED <<mainVars, alignVars, tidyVars, configVars>>
    /\ UNCHANGED <<g_args, g_dirname, g_open, g_files0, g_inputs, g_jobs>>

\* ---- compress_all_fast5_files, lines 153-155: one compress_fast5_file
\* job per element of the list.
compress_submit ==
    /\ g_pc = "compress"
    /\ g_jobs' = [j \in 1..Len(fast5_files) |-> "queued"]
    /\ g_pc' = "pool"
    /\ UNCHANGED <<mainVars, alignVars, tidyVars, configVars>>
    /\ UNCHANGED <<g_args, g_dirname, g_files, g_open, g_files0, g_inputs,
                   fast5_files, g_moves>>

\* ---- compress_fast5_file, lines 105-111: a worker takes the job, logs
\* the command and, with debug (--dry-run), returns.
compress_start(j) ==
    /\ g_pc = "pool"
    /\ NextQueued(g_jobs, j)
    /\ WorkerFree(g_jobs, g_args.threads)
    /\ g_jobs' = [g_jobs EXCEPT ![j] = IF g_args.dry_run THEN "done" ELSE "gzip"]
    /\ UNCHANGED <<mainVars, alignVars, tidyVars, configVars>>
    /\ UNCHANGED <<g_args, g_dirname, g_files, g_open, g_files0, g_pc, g_inputs,
                   fast5_files, g_moves>>

\* ---- compress_fast5_file, lines 113-119: gzip --best replaces the file by
\* its .gz.  It fails when the file is gone; when the .gz exists it asks on
\* a terminal whether to overwrite and fails otherwise.  A non-zero exit
\* code is logged and sys.exit(1) raises SystemExit in the job.
compress_gzip(j) ==
    /\ g_pc = "pool"
    /\ g_jobs[j] = "gzip"
    /\ \E answer \in BOOLEAN :
         LET fast5_file == fast5_files[j]
             ok == /\ fast5_file \in g_files
                   /\ (gz(fast5_file) \in g_files => answer)
         IN  /\ g_files' = IF ok THEN (g_files \ {fast5_file}) \cup {gz(fast5_file)}
                           ELSE g_files
             /\ g_jobs' = [g_jobs EXCEPT ![j] = IF ok THEN "done" ELSE "raised"]
    /\ UNCHANGED <<mainVars, alignVars, tidyVars, configVars>>
    /\ UNCHANGED <<g_args, g_dirname, g_open, g_files0, g_pc, g_inputs,
                   fast5_files, g_moves>>

\* ---- compress_all_fast5_files, lines 156-158 and the end of the `with`
\* block: item.result() re-raises a job's SystemExit.
compress_await ==
    /\ g_pc = "pool"
    /\ PoolDrained(g_jobs)
    /\ g_pc' = IF \E j \in DOMAIN g_jobs : g_jobs[j] = "raised" THEN "raised"
               ELSE "done"
    /\ UNCHANGED <<mainVars, alignVars, tidyVars, configVars>>
    /\ UNCHANGED <<g_args, g_dirname, g_files, g_open, g_files0, g_inputs,
                   fast5_files, g_moves, g_jobs>>

MinionNext ==
    \/ minion_get_fast5_files
    \/ minion_rename
    \/ compress_submit
    \/ \E j \in DOMAIN g_jobs : compress_start(j)
    \/ \E j \in DOMAIN g_jobs : compress_gzip(j)
    \/ compress_await

(***************************************************************************)
(*                           Specifications                                *)
(***************************************************************************)
InitMain == MainInit /\ AlignIdle /\ TidyIdle /\ ConfigIdle /\ MinionIdle
SpecMain == InitMain /\ [][MainNext]_vars

InitAlign == MainIdle /\ AlignInit /\ TidyIdle /\ ConfigIdle /\ MinionIdle
SpecAlign == InitAlign /\ [][AlignNext]_vars

InitTidy == MainIdle /\ AlignIdle /\ TidyInit /\ ConfigIdle /\ MinionIdle
SpecTidy == InitTidy /\ [][TidyNext]_vars

InitConfig == MainIdle /\ AlignIdle /\ TidyIdle /\ ConfigInit /\ MinionIdle
SpecConfig == InitConfig /\ [][ConfigNext]_vars

InitMinion == MainIdle /\ AlignIdle /\ TidyIdle /\ ConfigIdle /\ MinionInit
SpecMinion == InitMinion /\ [][MinionNext]_vars

(***************************************************************************)
(*                               Claims                                    *)
(***************************************************************************)
\* The worker-pool size the align workflow is said to use.
ClaimedPool == IF a_args.threads = 1 THEN 1 ELSE a_args.threads - 1

\* C1: when get_index has returned (genome.fa exists), the minimap2 index
\* the alignment jobs read exists; it was built by exactly one
\* generate_index call if it was absent on entry, and by none if present.
C1_IndexExistsAfterGetIndex ==
    Reached("submit_align") =>
        LET index == SubFolderIndex(Genome(a_args.w_lambda))
        IN  /\ index \in fs
            /\ index \notin fs0 => index_calls = 1
            /\ index \in fs0 => index_calls = 0

\* C2: for each of config, tidy, plot and align, run_function calls main(args)
\* of the module implementing that subcommand, exactly once.
C2_SubcommandRunsItsMain ==
    (m_pc = "done" /\ args.command \in {"config", "tidy", "plot", "align"}) =>
        main_calls =
            << CASE args.command = "config" -> "prom_beta_tar_gen_config"
                 [] args.command = "tidy"   -> "prom_beta_tar_wrapper"
                 [] args.command = "plot"   -> "prom_beta_plotter_wrapper"
                 [] args.command = "align"  -> "prom_beta_align_wrapper" >>

\* C3: every enumerated FASTQ file gets exactly one alignment job; never
\* more alignment jobs run than the pool size, which is 1 for --threads 1
\* and threads - 1 otherwise, and is at least 1.
C3_OneJobPerFastqBoundedPool ==
    /\ \A j \in Jobs : submitted[j] <= 1
    /\ Reached("align_pool") => \A j \in Jobs : submitted[j] = 1
    /\ (\E j \in Jobs : jobs[j] # "none") => \A j \in Jobs : submitted[j] = 1
    /\ Cardinality({j \in Jobs : jobs[j] \in {"mkdir", "pipe"}}) <= ClaimedPool
    /\ ClaimedPool >= 1

\* C3 witness: the pool is full while a job waits, with --threads 3.
C3_Witness ==
    /\ a_args.threads = 3
    /\ Cardinality({j \in Jobs : jobs[j] \in {"mkdir", "pipe"}}) = 2
    /\ \E j \in Jobs : jobs[j] = "queued"

\* C4: merge_bams starts only after every alignment job finished, QC jobs
\* start only after merge_bams returned, merge_pickles starts only after
\* every QC job finished, the report runs last; stages never overlap.
C4_StagesStrictlyOrdered ==
    LET aligning == {j \in Jobs : jobs[j] \in {"mkdir", "pipe"}}
        align_unfinished == {j \in Jobs : jobs[j] \in {"queued", "mkdir", "pipe"}}
        qc_started == {j \in Jobs : qjobs[j] \in {"running", "done"}}
        qc_unfinished == {j \in Jobs : qjobs[j] \in {"queued", "running"}}
        merge_started == a_pc = "merge_bams" \/ "samtools_merge" \in invoked
        merge_returned == "merge_index" \in invoked /\ a_pc # "merge_bams"
        pickles_started == a_pc = "merge_pickles"
                           \/ <<"host_merged_pickle", 0>> \in pickles
        report_ran == "bam_multi_qc" \in invoked
    IN  /\ merge_started => align_unfinished = {}
        /\ qc_started # {} => merge_returned /\ align_unfinished = {}
        /\ pickles_started => merge_returned /\ qc_unfinished = {}
        /\ report_ran => /\ a_pc = "done"
                         /\ <<"host_merged_pickle", 0>> \in pickles
                         /\ qc_unfinished = {}
                         /\ align_unfinished = {}
        /\ a_pc \in {"multiqc", "done"} => <<"host_merged_pickle", 0>> \in pickles

\* C4 witness: all five stages ran, with two alignment jobs side by side.
C4_Witness ==
    /\ a_pc = "done"
    /\ "bam_multi_qc" \in invoked
    /\ fastqs >= 2
    /\ a_args.threads = 3

\* C5: after the merge, bam_alignment_qc.py is run once for each pooled BAM
\* file (and on nothing else), and the report is built from QC results of
\* the pooled files, that is from pickles that were written.
C5_QcOncePerPooledBam ==
    /\ Reached("merge_pickles") =>
          \A b \in DOMAIN qc_runs :
             qc_runs[b] = IF b \in PooledBams THEN 1 ELSE 0
    /\ Range(report_inputs) \subseteq pickles

\* C6: every external command that returned a non-zero exit code had it
\* checked and logged.
C6_EveryExitCodeLogged == failed \subseteq logged

\* C7: no two jobs of a pool create or write the same file or directory.
C7_JobsShareNoPath ==
    \A i, j \in Jobs : i # j => touched[i] \cap touched[j] = {}

\* C8: with lambda filtering and genome.w_lambda.fa absent on entry, the
\* lambda genome is combined into it before the index is checked or built
\* and before any alignment job starts.
C8_CombineBeforeIndexAndJobs ==
    LET g == Genome(a_args.w_lambda)
    IN  (a_args.w_lambda /\ g.host_w_lambda_genome_path \notin fs0) =>
           /\ (a_pc \in {"gi_check_index", "submit_align"} \/ index_calls > 0)
                 => combined /\ g.host_w_lambda_genome_path \in fs
           /\ (\E j \in Jobs : jobs[j] # "none") => combined

\* C8 witness: the combined genome was absent, has been written, and an
\* alignment job has run.
C8_Witness ==
    /\ a_args.w_lambda
    /\ Genome(TRUE).host_w_lambda_genome_path \notin fs0
    /\ combined
    /\ \E j \in Jobs : jobs[j] = "done"

\* C9: in zip_and_move_file, when the output file already exists and
\* overwrite is not set, the file is skipped: the output is not replaced, no
\* temporary file is created and the input is not removed.
C9_ExistingOutputSkipped ==
    \A n \in Rows, k \in Kinds :
       (/\ t_jobs[n] \in {"md5", "returning", "done"}
        /\ <<k, "in", n>> \in t_fs0
        /\ <<k, "out", n>> \in t_fs0
        /\ ~t_args.overwrite) =>
           /\ <<"gzip", <<k, "tmp", n>> >> \notin Range(t_ops[n])
           /\ <<"move", <<k, "out", n>> >> \notin Range(t_ops[n])
           /\ <<k, "in", n>> \in t_fs

\* C10: with --dry-run the tidy runner only logs: no output or temporary
\* file is created, no input file is removed and no line is appended to a
\* checksum file.
C10_DryRunOnlyLogs ==
    t_args.dry_run =>
        /\ t_fs = t_fs0
        /\ \A n \in Rows : t_ops[n] = <<>>
        /\ \A k \in Kinds : md5[k] = {}

\* C10 witness: a --dry-run of two file sets has finished, and
\* zip_and_move_file was called on existing input files.
C10_Witness ==
    /\ t_args.dry_run
    /\ t_pc = "done"
    /\ nsets >= 2
    /\ \A n \in Sets : \E k \in Kinds : <<"would_have", k, n>> \in t_log

\* C11: with tidy --keep no runner is passed --inplace and no job removes
\* an input file; without --keep every runner a job starts is passed
\* --inplace, and a job removes an input file only after it has moved the
\* compressed output of that file to its final path.
Launched(n) == t_jobs[n] \in {"zip", "md5", "returning", "done"}

C12_ActiveLeavesOutLastSet ==
    (c_pc = "done" /\ c_args.active) =>
      LET all == {config_df[i].zfill_num : i \in 1..Len(config_df)}
          last == str_max(all)
      IN  /\ last \notin DOMAIN c_yaml
          /\ last \notin mini_written
          /\ \A z \in all \ {last} : z \in DOMAIN c_yaml /\ z \in mini_written

\* C13: for a YAML file written by output_yaml from a config table of n
\* file sets, tidy submits exactly n jobs, and for every file set one job's
\* command line carries the twelve path values of that file set's row.
C13_ConfigTidyRoundTrip ==
    (orient = "index" /\ t_pc \in {"pool", "done", "raised"}) =>
      /\ Cardinality(DOMAIN t_jobs) = nsets
      /\ PoolDrained(t_jobs) =>
            \A i \in 1..nsets : \E n \in DOMAIN t_jobs :
              /\ t_jobs[n] = "done"
              /\ t_paths[n] = tar_command_paths(
                     [Index |-> ConfigTable(nsets)[i].zfill_num, named |-> TRUE,
                      fields |-> ConfigTable(nsets)[i]])

\* C14: in the MinION script, without --overwrite a .fast5 file whose .gz
\* exists is left out of the list of files to compress; with --overwrite it
\* is in the list (unless it is held open).
C14_ExistingGzLeftOut ==
    g_pc \notin {"idle", "start"} =>
      \A n \in 1..MaxFast5 :
        (FileName(n, ".fast5") \in g_files0 /\ FileName(n, ".fast5.gz") \in g_files0) =>
          IF g_args.overwrite
          THEN path_join(Fast5Directory, FileName(n, ".fast5")) \notin g_open
                 => FileName(n, ".fast5") \in Range(g_inputs)
          ELSE FileName(n, ".fast5") \notin Range(g_inputs)

\* C15: in the MinION script, a .fast5 file some process holds open is
\* never in the list of files to rename or compress.
C15_OpenFileLeftOut ==
    \A i \in 1..Len(g_inputs) :
        path_join(Fast5Directory, g_inputs[i]) \notin g_open

\* C16: with --rename, rename_fast5_files returns (it does not raise), the
\* i-th name of the new list is <FLOWCELL>_<TRUNC_ID>_<ZFILL_N>.fast5 with
\* ZFILL_N the i-th input file's own N filled with zeros to five digits, and
\* distinct input files have distinct new names.
C16_RenameKeepsOwnNumber ==
    (g_args.rename /\ g_pc \in {"raised", "compress", "pool", "done"}
       /\ g_dirname.fields = 5) =>
      /\ ~(g_pc = "raised" /\ g_jobs = <<>>)
      /\ Len(fast5_files) = Len(g_inputs)
      /\ \A i \in 1..Len(g_inputs) :
            /\ fast5_files[i][2] = g_dirname.flowcell_id
            /\ fast5_files[i][3] = "TRUNC_ID"
            /\ fast5_files[i][4] = str_zfill(g_inputs[i][4], 5)
            /\ fast5_files[i][5] = ".fast5"
      /\ \A i, j \in 1..Len(g_inputs) :
            g_inputs[i] # g_inputs[j] => fast5_files[i] # fast5_files[j]

=============================================================================
